---- MODULE Spec2Model ----
(***************************************************************************)
(* Model of main.py of the Aptos Defender demo: the on-chain resource      *)
(* fetcher (get_onchain_modules), the approval reconciler (handle_analyze) *)
(* and the spec-file handlers (handle_upload_spec, handle_select_spec,     *)
(* handle_refresh_specs).                                                  *)
(*                                                                         *)
(* Strings are TLA+ strings.  JSON/YAML objects are records, JSON/YAML     *)
(* arrays are sequences, Python sets are sets.  Python's None is the       *)
(* record None.  The report's cell values U+2705 / U+274C are written      *)
(* Pass / Fail; their order under string comparison is kept by CellOrd.    *)
(***************************************************************************)
EXTENDS Naturals, Sequences, FiniteSets

VARIABLES
    node,              \* what the node answers to GET {endpoint}/accounts/{contract}/resources
    fetched,           \* value returned by the last get_onchain_modules call
    fetch_status,      \* "none" before that call, "returned" after it
    input_contract,    \* the "Contract Address" text widget
    spec,              \* the spec code widget (YAML text)
    output_dataframe,  \* the report widget: first value returned by handle_analyze
    output_json,       \* the raw JSON widget: second value returned by handle_analyze
    analyze_status,    \* how the last handle_analyze call ended
    specs_dir,         \* the directory specs/: file name -> file content
    file_output,       \* first value returned by handle_upload_spec
    dropdown_spec,     \* choices of the "Spec File" dropdown
    upload_status,     \* how the last handle_upload_spec call ended
    select_status      \* how the last handle_select_spec call ended

vars == <<node, fetched, fetch_status, input_contract, spec, output_dataframe, output_json,
          analyze_status, specs_dir, file_output, dropdown_spec, upload_status,
          select_status>>

\* Python's None.
None == [none |-> TRUE]

\* Elements of a sequence, as a set (Python's set(list)).
Range(s) == {s[i] : i \in 1..Len(s)}

\* All sequences over S of length at most n.
SeqsUpTo(S, n) == UNION {[1..k -> S] : k \in 0..n}

(***************************************************************************)
(* Bounds of the model.                                                    *)
(***************************************************************************)
\* resource entries in one node answer (fetcher specification)
MaxEntries == 2
\* packages inside one resource entry (fetcher specification)
MaxEntryPkgs == 2
\* packages of the registry entry of an analysed account
MaxRuntimePkgs == 2
\* package entries of a spec document, over all its contract groups
MaxSpecEntries == 2

(***************************************************************************)
(* The node's answer.                                                      *)
(***************************************************************************)
\* The registry type tag, the only choice of the "Package Registry Type" dropdown.
Registry == "0x1::code::PackageRegistry"

\* The type tag of some other resource of the account.
OtherType == "0x1::account::Account"

\* A package object of the registry resource.
RawPkg(name, upgrade_number, modules) ==
    [name |-> name, upgrade_number |-> upgrade_number,
     modules |-> [i \in 1..Len(modules) |-> [name |-> modules[i]]]]

\* Package objects an analysed account may hold: "coin" at two upgrade numbers
\* and with two module lists, and one "vault".
RawPkgs ==
    {RawPkg("coin", "1", <<"Coin">>), RawPkg("coin", "2", <<"Coin">>),
     RawPkg("coin", "1", <<"Coin", "Vault">>), RawPkg("vault", "1", <<"Vault">>)}

\* Package objects of the fetcher specification.
FetchPkgs == {RawPkg("coin", "2", <<"Coin", "Vault">>), RawPkg("vault", "1", <<"Vault">>)}

\* Resource entries: with or without "data", with or without "data.packages".
Entries(pkgs, n) ==
    {[type |-> t] : t \in {Registry, OtherType}}
        \cup {[type |-> t, data |-> [authentication_key |-> "0x00"]] : t \in {Registry, OtherType}}
        \cup {[type |-> t, data |-> [packages |-> p]] :
                  t \in {Registry, OtherType}, p \in SeqsUpTo(pkgs, n)}

\* A JSON array of resource entries.
ArrayBody(entries) == [kind |-> "array", body |-> entries]

\* Anything else: a transport failure, a body that is not JSON, or the JSON
\* object the node sends with an error status ({"message": .., "error_code": ..}).
ErrorBody == [kind |-> "error"]

(***************************************************************************)
(* get_onchain_modules                                                     *)
(***************************************************************************)
\* entry.get("data", {}).get("packages", [])
EntryPackages(entry) ==
    IF "data" \in DOMAIN entry
        THEN IF "packages" \in DOMAIN entry.data THEN entry.data.packages ELSE <<>>
        ELSE <<>>

\* The record appended for one package object.
RuntimePackage(pkg) ==
    [package |-> pkg.name,
     modules |-> {pkg.modules[i].name : i \in 1..Len(pkg.modules)},
     version |-> pkg.upgrade_number]

\* The inner loop: one append per package object of the entry, in order.
RECURSIVE AppendPackages(_, _, _)
AppendPackages(packages, pkgs, j) ==
    IF j > Len(pkgs)
        THEN packages
        ELSE AppendPackages(Append(packages, RuntimePackage(pkgs[j])), pkgs, j + 1)

\* The filter turned around: the entries of the other types are the ones kept.
IsOtherEntry(entry, registry) == entry.type # registry

\* Whether the outer loop keeps an entry.
IsRegistryEntry(entry, registry) == entry.type = registry

\* The outer loop over the payload's entries.
RECURSIVE ScanEntries(_, _, _, _)
ScanEntries(packages, payload, registry, i) ==
    IF i > Len(payload)
        THEN packages
        ELSE IF ~IsRegistryEntry(payload[i], registry)
            THEN ScanEntries(packages, payload, registry, i + 1)
            ELSE ScanEntries(AppendPackages(packages, EntryPackages(payload[i]), 1),
                             payload, registry, i + 1)

\* requests.get / resp.json() / iterating the payload raise on anything but an array.
FetchRaises(response) == response.kind # "array"

GetOnchainModules(registry, response) == ScanEntries(<<>>, response.body, registry, 1)

(***************************************************************************)
(* The spec text and its YAML parse.                                       *)
(***************************************************************************)
\* The empty text "".
EmptyText == [kind |-> "empty"]

\* A text that is not YAML at all: yaml.safe_load raises.
InvalidText == [kind |-> "invalid"]

\* A text whose YAML value is no mapping (a scalar, a list, null).
ScalarText == [kind |-> "notmapping"]

\* A text whose YAML value is the mapping doc.
MappingText(doc) == [kind |-> "mapping", doc |-> doc]

\* A package entry of a contract group.
SpecEntry(name, modules, approved) ==
    [name |-> name, modules |-> modules, approved |-> approved]

\* Entries a spec may hold: "coin" with two module lists and two approved
\* lists (versions with and without the "v"), and one "vault".
SpecEntries ==
    {SpecEntry("coin", <<"Coin">>, <<"v1">>), SpecEntry("coin", <<"Vault", "Coin">>, <<"v1">>),
     SpecEntry("coin", <<"Coin">>, <<"1", "v2">>), SpecEntry("vault", <<"Vault">>, <<"v1">>)}

\* A contract group.
Group(pkgs) == [name |-> "DeFi", packages |-> pkgs]

\* Every way of cutting a sequence of entries into consecutive non-empty groups.
RECURSIVE Splits(_)
Splits(es) ==
    IF Len(es) = 0
        THEN {<<>>}
        ELSE UNION {{<<Group(SubSeq(es, 1, k))>> \o rest :
                        rest \in Splits(SubSeq(es, k + 1, Len(es)))} : k \in 1..Len(es)}

\* The group lists under the key aptos_defi_approved_lists: at most
\* MaxSpecEntries entries cut into groups, or a single group without packages.
GroupLists ==
    UNION {Splits(es) : es \in SeqsUpTo(SpecEntries, MaxSpecEntries)}
        \cup {<<Group(<<>>)>>}

\* The texts the spec widget may hold.
SpecTexts ==
    {EmptyText, InvalidText, ScalarText, MappingText([title |-> "no approved list"])}
        \cup {MappingText([aptos_defi_approved_lists |-> g]) : g \in GroupLists}

\* yaml.safe_load raises on a text that is not YAML.
YamlRaises(text) == text.kind = "invalid"

\* yaml.safe_load of a text that is YAML.
YamlSafeLoad(text) ==
    IF text.kind = "mapping" THEN [type |-> "dict", items |-> text.doc] ELSE [type |-> "other"]

\* spec.get raises AttributeError unless the parsed value is a dict.
GetRaises(loaded) == loaded.type # "dict"

\* not spec.get("aptos_defi_approved_lists", None): the key is missing or its list is empty.
NoApprovedSpecs(loaded) ==
    IF "aptos_defi_approved_lists" \in DOMAIN loaded.items
        THEN Len(loaded.items.aptos_defi_approved_lists) = 0
        ELSE TRUE

(***************************************************************************)
(* handle_analyze: one row per runtime package.                            *)
(***************************************************************************)
\* The cell values of the column "matched".
Pass == "pass"
Fail == "fail"

\* Code points of the two cell values, U+2705 and U+274C: sort_values compares
\* the cells as strings.
PassCodePoint == 9989
FailCodePoint == 10060
CellOrd(cell) == IF cell = Pass THEN PassCodePoint ELSE FailCodePoint

\* The first package of one contract group with the name, or None.
RECURSIVE FindInPackages(_, _, _)
FindInPackages(pkgs, name, j) ==
    IF j > Len(pkgs)
        THEN None
        ELSE IF pkgs[j].name = name THEN pkgs[j] ELSE FindInPackages(pkgs, name, j + 1)

\* next(...) over the nested generator: groups in order, packages in order.
RECURSIVE FindInGroups(_, _, _)
FindInGroups(approved_specs, name, i) ==
    IF i > Len(approved_specs)
        THEN None
        ELSE LET found == FindInPackages(approved_specs[i].packages, name, 1)
             IN  IF found # None THEN found ELSE FindInGroups(approved_specs, name, i + 1)

\* A sequence back to front.
Reverse(s) == [i \in 1..Len(s) |-> s[Len(s) + 1 - i]]

\* The scan run from the end of the document: the last match wins.
MatchedPkgLast(approved_specs, runtime_pkg) ==
    FindInGroups(Reverse([i \in 1..Len(approved_specs) |->
                             [packages |-> Reverse(approved_specs[i].packages)]]),
                 runtime_pkg.package, 1)

MatchedPkg(approved_specs, runtime_pkg) == FindInGroups(approved_specs, runtime_pkg.package, 1)

\* f"v{runtime_pkg['version']}"
VersionDisplay(runtime_pkg) == "v" \o runtime_pkg.version

IsVersionApproved(runtime_pkg, matched_pkg) ==
    \E k \in 1..Len(matched_pkg.approved) : matched_pkg.approved[k] = VersionDisplay(runtime_pkg)

\* Containment in place of equality: the runtime modules are all approved.
IsModulesSubset(runtime_pkg, matched_pkg) == runtime_pkg.modules \subseteq Range(matched_pkg.modules)

IsModulesMatch(runtime_pkg, matched_pkg) == runtime_pkg.modules = Range(matched_pkg.modules)

Matched(runtime_pkg, matched_pkg) ==
    IF matched_pkg # None
        THEN IsVersionApproved(runtime_pkg, matched_pkg) /\ IsModulesMatch(runtime_pkg, matched_pkg)
        ELSE FALSE

\* ", ".join(strings)
RECURSIVE Join(_)
Join(strings) ==
    IF Len(strings) = 0 THEN ""
    ELSE IF Len(strings) = 1 THEN strings[1]
    ELSE strings[1] \o ", " \o Join(Tail(strings))

ContractName(matched_pkg) == IF matched_pkg # None THEN matched_pkg.name ELSE "Unknown"

\* The join of no approved versions in place of "N/A".
ApprovedVersionsStrBlank(matched_pkg) ==
    IF matched_pkg # None THEN Join(matched_pkg.approved) ELSE Join(<<>>)

ApprovedVersionsStr(matched_pkg) ==
    IF matched_pkg # None THEN Join(matched_pkg.approved) ELSE "N/A"

\* The dict appended to rows for one runtime package.
Row(approved_specs, runtime_pkg, contract_address) ==
    LET matched_pkg == MatchedPkg(approved_specs, runtime_pkg)
    IN  [package_name |-> runtime_pkg.package,
         contract_name |-> ContractName(matched_pkg),
         address |-> contract_address,
         onchain_package_version |-> VersionDisplay(runtime_pkg),
         approved_versions |-> ApprovedVersionsStr(matched_pkg),
         matched |-> IF Matched(runtime_pkg, matched_pkg) THEN Pass ELSE Fail]

\* The loop over onchain_data.
Rows(approved_specs, onchain_data, contract_address) ==
    [i \in 1..Len(onchain_data) |-> Row(approved_specs, onchain_data[i], contract_address)]

\* pd.DataFrame(rows): the rows under the index labels 0, 1, ...
DataFrame(rows) ==
    [i \in 1..Len(rows) |->
        [index |-> i - 1,
         package_name |-> rows[i].package_name,
         contract_name |-> rows[i].contract_name,
         address |-> rows[i].address,
         onchain_package_version |-> rows[i].onchain_package_version,
         approved_versions |-> rows[i].approved_versions,
         matched |-> rows[i].matched]]

\* A frame built from no rows has no column "matched": sort_values raises KeyError.
SortRaises(df) == Len(df) = 0

\* The orders sort_values(by=["matched"], ascending=False) may return.  The call
\* leaves kind at its default, "quicksort", which pandas documents as not
\* stable: the rows are in descending order of the cell, rows with equal cells
\* in any order.  (numpy's quicksort happens to keep equal cells in order while
\* the frame is short enough to be insertion-sorted; the call does not ask for
\* that, and longer frames do not get it.)
SortOrders(df) ==
    {p \in [1..Len(df) -> 1..Len(df)] :
        /\ \A i, j \in 1..Len(df) : i # j => p[i] # p[j]
        /\ \A i \in 1..Len(df) - 1 : CellOrd(df[p[i]].matched) >= CellOrd(df[p[i + 1]].matched)}

Reindex(df, p) == [i \in 1..Len(df) |-> df[p[i]]]

\* gr.Warning(...); return None, []
Warned ==
    /\ analyze_status' = "warning"
    /\ output_dataframe' = None
    /\ output_json' = <<>>

\* An exception leaves handle_analyze: the outputs keep their values.
Raised ==
    /\ analyze_status' = "raised"
    /\ UNCHANGED <<output_dataframe, output_json>>

\* not spec_str: the widget holds no text (None) or the empty text.
NotSpecStr(text) == text = None \/ text = EmptyText

HandleAnalyze ==
    /\ \/ /\ input_contract = ""
          /\ Warned
       \/ /\ input_contract # ""
          /\ NotSpecStr(spec)
          /\ Warned
       \/ /\ input_contract # ""
          /\ ~NotSpecStr(spec)
          /\ FetchRaises(node)
          /\ Raised
       \/ /\ input_contract # ""
          /\ ~NotSpecStr(spec)
          /\ ~FetchRaises(node)
          /\ \/ YamlRaises(spec)
             \/ ~YamlRaises(spec) /\ GetRaises(YamlSafeLoad(spec))
          /\ Raised
       \/ /\ input_contract # ""
          /\ ~NotSpecStr(spec)
          /\ ~FetchRaises(node)
          /\ ~YamlRaises(spec)
          /\ ~GetRaises(YamlSafeLoad(spec))
          /\ LET onchain_data == GetOnchainModules(Registry, node)
                 loaded == YamlSafeLoad(spec)
             IN  \/ /\ NoApprovedSpecs(loaded)
                    /\ Warned
                 \/ /\ ~NoApprovedSpecs(loaded)
                    /\ LET df == DataFrame(Rows(loaded.items.aptos_defi_approved_lists,
                                                onchain_data, input_contract))
                       IN  \/ /\ SortRaises(df)
                              /\ Raised
                           \/ /\ ~SortRaises(df)
                              /\ \E p \in SortOrders(df) :
                                     output_dataframe' = Reindex(df, p)
                              /\ output_json' = onchain_data
                              /\ analyze_status' = "ok"
    /\ UNCHANGED <<node, fetched, fetch_status, input_contract, spec,
                   specs_dir, file_output, dropdown_spec, upload_status, select_status>>

\* gr.ClearButton([input_contract, output_dataframe, output_json])
Clear ==
    /\ input_contract' = ""
    /\ output_dataframe' = None
    /\ output_json' = None
    /\ analyze_status' = "none"
    /\ UNCHANGED <<node, fetched, fetch_status, spec,
                   specs_dir, file_output, dropdown_spec, upload_status, select_status>>

(***************************************************************************)
(* The spec directory and its handlers.                                    *)
(***************************************************************************)
\* The spec shipped with the tool, which an upload may not replace.
DefaultSpecName == "example.yaml"

\* A well-formed spec text.
ExampleText ==
    MappingText([aptos_defi_approved_lists |->
                     <<Group(<<SpecEntry("vault", <<"Vault">>, <<"v1">>)>>)>>])

\* Names and contents of the files a user may upload.
FileStems == {"example", "a", "notes"}
FileExts == {".yaml", ".txt"}
UploadNames == {stem \o ext : stem \in FileStems, ext \in FileExts}
UploadTexts == {EmptyText, InvalidText, ExampleText}

\* The temporary file gradio hands to handle_upload_spec; opening it may fail.
FileObjs == [basename : UploadNames, content : UploadTexts, readable : BOOLEAN]

\* str.endswith, for the names above.
EndsWith(name, suffix) == \E stem \in FileStems : name = stem \o suffix

\* os.listdir("specs")
ListDir(dir) == DOMAIN dir

\* open(f"specs/{basename}", "wb").write(content)
WriteFile(dir, basename, content) ==
    [f \in DOMAIN dir \cup {basename} |-> IF f = basename THEN content ELSE dir[f]]

\* refresh_specs(): the directory's names and the uploaded file's name.
RefreshSpecs(dir, basename) == ListDir(dir) \cup {basename}

HandleUploadSpec(fileobj) ==
    /\ \/ /\ ~fileobj.readable
          /\ upload_status' = "failed"
          /\ file_output' = None
          /\ dropdown_spec' = ListDir(specs_dir)
          /\ UNCHANGED specs_dir
       \/ /\ fileobj.readable
          /\ fileobj.basename = DefaultSpecName
          /\ upload_status' = "rejected"
          /\ file_output' = None
          /\ dropdown_spec' = RefreshSpecs(specs_dir, fileobj.basename)
          /\ UNCHANGED specs_dir
       \/ /\ fileobj.readable
          /\ fileobj.basename # DefaultSpecName
          /\ ~EndsWith(fileobj.basename, ".yaml")
          /\ upload_status' = "rejected"
          /\ file_output' = None
          /\ dropdown_spec' = RefreshSpecs(specs_dir, fileobj.basename)
          /\ UNCHANGED specs_dir
       \/ /\ fileobj.readable
          /\ fileobj.basename # DefaultSpecName
          /\ EndsWith(fileobj.basename, ".yaml")
          /\ specs_dir' = WriteFile(specs_dir, fileobj.basename, fileobj.content)
          /\ upload_status' = "saved"
          /\ file_output' = "specs/" \o fileobj.basename
          /\ dropdown_spec' = RefreshSpecs(specs_dir', fileobj.basename)
    /\ UNCHANGED <<node, fetched, fetch_status, input_contract, spec, output_dataframe,
                   output_json, analyze_status, select_status>>

\* open(f"specs/{dropdown_spec}").read(): the choice is one of the dropdown's.
HandleSelectSpec(choice) ==
    /\ choice \in dropdown_spec
    /\ \/ /\ choice \in DOMAIN specs_dir
          /\ spec' = specs_dir[choice]
          /\ select_status' = "loaded"
       \/ /\ choice \notin DOMAIN specs_dir
          /\ select_status' = "raised"
          /\ UNCHANGED spec
    /\ UNCHANGED <<node, fetched, fetch_status, input_contract, output_dataframe, output_json,
                   analyze_status, specs_dir, file_output, dropdown_spec, upload_status>>

(***************************************************************************)
(* Specifications.                                                         *)
(***************************************************************************)
\* The node's answers to the analysed account: one registry entry holding at
\* most MaxRuntimePkgs packages after an entry of another type, or an error.
AnalyzeAnswers ==
    {ArrayBody(<<[type |-> OtherType, data |-> [authentication_key |-> "0x00"]],
                 [type |-> Registry, data |-> [packages |-> p]]>>) :
         p \in SeqsUpTo(RawPkgs, MaxRuntimePkgs)}
        \cup {ErrorBody}

NoUpload ==
    /\ specs_dir = [f \in {} |-> None]
    /\ file_output = None
    /\ dropdown_spec = {}
    /\ upload_status = "none"
    /\ select_status = "none"
    /\ select_status = "none"

NoAnalysis ==
    /\ output_dataframe = None
    /\ output_json = None
    /\ analyze_status = "none"

\* Fetcher: the node's answer is drawn, get_onchain_modules applied to it.
InitFetch ==
    /\ node \in {ArrayBody(b) : b \in SeqsUpTo(Entries(FetchPkgs, MaxEntryPkgs), MaxEntries)}
                   \cup {ErrorBody}
    /\ fetched = None
    /\ fetch_status = "none"
    /\ input_contract = "0x1"
    /\ spec = EmptyText
    /\ NoAnalysis
    /\ NoUpload

Fetch ==
    /\ \/ /\ FetchRaises(node)
          /\ fetch_status' = "raised"
          /\ UNCHANGED fetched
       \/ /\ ~FetchRaises(node)
          /\ fetched' = GetOnchainModules(Registry, node)
          /\ fetch_status' = "returned"
    /\ UNCHANGED <<node, input_contract, spec, output_dataframe, output_json,
                   analyze_status, specs_dir, file_output, dropdown_spec, upload_status,
                   select_status>>

NextFetch == Fetch

SpecFetch == InitFetch /\ [][NextFetch]_vars

\* Analyzer: the widgets' values and the node's answer are drawn; the Analyze
\* and Clear buttons act on them.
Init ==
    /\ node \in AnalyzeAnswers
    /\ fetched = None
    /\ fetch_status = "none"
    /\ input_contract \in {"", "0x1"}
    /\ spec \in SpecTexts
    /\ NoAnalysis
    /\ NoUpload

Next == HandleAnalyze \/ Clear

Spec == Init /\ [][Next]_vars

\* Spec directory: the tool starts with or without specs/example.yaml; files
\* are uploaded and selected.
InitUpload ==
    /\ specs_dir \in {[f \in {} |-> None], [f \in {DefaultSpecName} |-> ExampleText]}
    /\ spec = IF DefaultSpecName \in DOMAIN specs_dir THEN specs_dir[DefaultSpecName] ELSE None
    /\ dropdown_spec = ListDir(specs_dir)
    /\ file_output = None
    /\ upload_status = "none"
    /\ select_status = "none"
    /\ node = ErrorBody
    /\ fetched = None
    /\ fetch_status = "none"
    /\ input_contract = ""
    /\ NoAnalysis

NextUpload ==
    \/ \E fileobj \in FileObjs : HandleUploadSpec(fileobj)
    \/ \E choice \in UploadNames : HandleSelectSpec(choice)

SpecUpload == InitUpload /\ [][NextUpload]_vars

(***************************************************************************)
(* Properties.                                                             *)
(***************************************************************************)
\* The least element of a non-empty set of numbers.
Min(S) == CHOOSE k \in S : \A j \in S : k <= j

\* The package entries of all contract groups, in document order.
RECURSIVE FlatEntries(_)
FlatEntries(groups) ==
    IF Len(groups) = 0 THEN <<>> ELSE groups[1].packages \o FlatEntries(Tail(groups))

\* Positions, in document order, of the entries with the name.
SameNamed(groups, name) ==
    {k \in 1..Len(FlatEntries(groups)) : FlatEntries(groups)[k].name = name}

\* The first entry with the name (there is one).
FirstNamed(groups, name) == FlatEntries(groups)[Min(SameNamed(groups, name))]

\* handle_analyze returned a report.
AnalysisDone == analyze_status = "ok"

\* The group list of the spec the report was made from.
ApprovedLists == spec.doc.aptos_defi_approved_lists

\* The runtime package a report row was made from: the row's index label is
\* the package's position in the fetched input.
RuntimeOf(r) == output_json[r.index + 1]

\* The two tests of a runtime package against a spec entry, stated on the
\* inputs: the version as the report shows it ("v" and the upgrade number) is
\* one of the approved strings; the module sets are equal.
VersionListed(rp, e) == ("v" \o rp.version) \in Range(e.approved)
ModulesEqual(rp, e) == rp.modules = Range(e.modules)

\* C1: every report row whose package has an equally-named spec entry is
\* pass exactly when, against the first such entry, the on-chain version is
\* among the approved versions and the runtime module set equals the entry's
\* module set; otherwise it is fail.
C1_MatchedIffVersionAndModules ==
    AnalysisDone =>
        \A i \in 1..Len(output_dataframe) :
            LET r == output_dataframe[i]
                rp == RuntimeOf(r)
            IN  SameNamed(ApprovedLists, rp.package) # {} =>
                    LET e == FirstNamed(ApprovedLists, rp.package)
                    IN  /\ r.matched \in {Pass, Fail}
                        /\ r.matched = Pass <=> (VersionListed(rp, e) /\ ModulesEqual(rp, e))

\* C1 witness: one report holds a pass row and a row that fails on the module
\* set alone, the runtime set being a strict superset of the entry's.
C1_Witness ==
    /\ AnalysisDone
    /\ \E i, j \in 1..Len(output_dataframe) :
        LET r == output_dataframe[i]
            q == output_dataframe[j]
        IN  /\ r.matched = Pass
            /\ SameNamed(ApprovedLists, RuntimeOf(r).package) # {}
            /\ q.matched = Fail
            /\ SameNamed(ApprovedLists, RuntimeOf(q).package) # {}
            /\ LET e == FirstNamed(ApprovedLists, RuntimeOf(q).package)
               IN  /\ VersionListed(RuntimeOf(q), e)
                   /\ Range(e.modules) \subseteq RuntimeOf(q).modules
                   /\ Range(e.modules) # RuntimeOf(q).modules

\* An approved string or an upgrade number without its leading "v".
Normalize(v) ==
    IF \E n \in {"1", "2"} : v = "v" \o n THEN CHOOSE n \in {"1", "2"} : v = "v" \o n ELSE v

\* C2: for a row whose module sets agree, the row is pass exactly when the
\* entry's approved list holds the on-chain version with or without the "v".
C2_VersionPrefixIndependent ==
    AnalysisDone =>
        \A i \in 1..Len(output_dataframe) :
            LET r == output_dataframe[i]
                rp == RuntimeOf(r)
            IN  SameNamed(ApprovedLists, rp.package) # {} =>
                    LET e == FirstNamed(ApprovedLists, rp.package)
                    IN  ModulesEqual(rp, e) =>
                            (r.matched = Pass <=>
                                \E a \in Range(e.approved) : Normalize(a) = Normalize(rp.version))

\* C3: a row whose package is named by no entry of any group is fail, with
\* contract name "Unknown" and approved versions "N/A".
C3_UnmatchedRow ==
    AnalysisDone =>
        \A i \in 1..Len(output_dataframe) :
            LET r == output_dataframe[i]
            IN  SameNamed(ApprovedLists, RuntimeOf(r).package) = {} =>
                    /\ r.matched = Fail
                    /\ r.contract_name = "Unknown"
                    /\ r.approved_versions = "N/A"

\* C3 witness: a report with such a row, made from a spec that names a package.
C3_Witness ==
    /\ AnalysisDone
    /\ Len(FlatEntries(ApprovedLists)) > 0
    /\ \E i \in 1..Len(output_dataframe) :
        SameNamed(ApprovedLists, RuntimeOf(output_dataframe[i]).package) = {}

\* C4: a row whose package is named by several entries is judged against the
\* first of them in document order alone: its approved versions are the first
\* entry's and it is pass exactly when the first entry's two tests pass.
C4_FirstMatchWins ==
    AnalysisDone =>
        \A i \in 1..Len(output_dataframe) :
            LET r == output_dataframe[i]
                rp == RuntimeOf(r)
            IN  Cardinality(SameNamed(ApprovedLists, rp.package)) >= 2 =>
                    LET e == FirstNamed(ApprovedLists, rp.package)
                    IN  /\ r.contract_name = e.name
                        /\ r.approved_versions = Join(e.approved)
                        /\ r.matched = (IF VersionListed(rp, e) /\ ModulesEqual(rp, e)
                                            THEN Pass ELSE Fail)

\* C4 witness: two groups name the package; the first group's entry fails, the
\* second group's entry would pass, and the row is fail.
C4_Witness ==
    /\ AnalysisDone
    /\ Len(ApprovedLists) >= 2
    /\ \E i \in 1..Len(output_dataframe) :
        LET r == output_dataframe[i]
            rp == RuntimeOf(r)
            flat == FlatEntries(ApprovedLists)
        IN  /\ Cardinality(SameNamed(ApprovedLists, rp.package)) >= 2
            /\ ~(VersionListed(rp, FirstNamed(ApprovedLists, rp.package))
                    /\ ModulesEqual(rp, FirstNamed(ApprovedLists, rp.package)))
            /\ \E k \in SameNamed(ApprovedLists, rp.package) :
                   VersionListed(rp, flat[k]) /\ ModulesEqual(rp, flat[k])
            /\ r.matched = Fail

\* C5: rows with the same matched value keep the relative order of their
\* runtime packages in the fetched input.
C5_StableOrder ==
    AnalysisDone =>
        \A i, j \in 1..Len(output_dataframe) :
            (i < j /\ output_dataframe[i].matched = output_dataframe[j].matched)
                => output_dataframe[i].index < output_dataframe[j].index

\* The spec widget holds a mapping with the key aptos_defi_approved_lists.
HasApprovedKey == spec.kind = "mapping" /\ "aptos_defi_approved_lists" \in DOMAIN spec.doc

\* C6: with address, spec text and approved-list key present and an empty list
\* of runtime packages fetched, handle_analyze does not end in an error.
C6_EmptyFetchNoError ==
    (/\ analyze_status # "none"
     /\ input_contract # ""
     /\ HasApprovedKey
     /\ ~FetchRaises(node)
     /\ Len(GetOnchainModules(Registry, node)) = 0)
        => analyze_status # "raised"

\* C7: a call with an empty address, an empty spec text or a spec mapping
\* without the approved-list key ends in the warning with no rows, whatever
\* the node answered.
C7_ValidationWarns ==
    (/\ analyze_status # "none"
     /\ \/ input_contract = ""
        \/ spec = EmptyText
        \/ spec.kind = "mapping" /\ ~HasApprovedKey)
        => analyze_status = "warning" /\ Len(output_json) = 0

\* C8: every file an upload added to the directory has a non-empty content
\* that parses as YAML and a name that ends in .yaml; example.yaml is never
\* written by an upload.
C8_UploadValidated ==
    \A f \in DOMAIN specs_dir :
        IF f = DefaultSpecName
            THEN specs_dir[f] = ExampleText
            ELSE /\ specs_dir[f] # EmptyText
                 /\ ~YamlRaises(specs_dir[f])
                 /\ EndsWith(f, ".yaml")

\* C9: after a rejected upload the dropdown lists the files of the directory
\* and nothing else.
C9_RejectedUploadListsDirectory ==
    upload_status = "rejected" => dropdown_spec = DOMAIN specs_dir

\* The package occurrences the fetcher is to return: entry i has the registry
\* type and holds a j-th package.
Occurrences(body) ==
    UNION {{<<i, j>> : j \in 1..(IF "data" \in DOMAIN body[i]
                                    THEN IF "packages" \in DOMAIN body[i].data
                                             THEN Len(body[i].data.packages) ELSE 0
                                    ELSE 0)} :
              i \in {k \in 1..Len(body) : body[k].type = Registry}}

\* Document order of the occurrences.
Before(p, q) == p[1] < q[1] \/ (p[1] = q[1] /\ p[2] < q[2])

\* C10: the fetcher returns one record per package occurrence of the
\* registry-typed entries, in entry order and then package order, each with
\* the package's name, module-name set and upgrade number; nothing else.
C10_FetchFlattensRegistryEntries ==
    fetch_status = "returned" =>
        LET occ == Occurrences(node.body)
        IN  /\ Len(fetched) = Cardinality(occ)
            /\ \A p \in occ :
                   LET pkg == node.body[p[1]].data.packages[p[2]]
                       rank == Cardinality({q \in occ : Before(q, p)}) + 1
                   IN  /\ fetched[rank].package = pkg.name
                       /\ fetched[rank].version = pkg.upgrade_number
                       /\ fetched[rank].modules = {m.name : m \in Range(pkg.modules)}

\* C10 witness: an entry of another type holding packages is dropped and a
\* registry entry holding the same package twice yields it twice.
C10_Witness ==
    /\ fetch_status = "returned"
    /\ \E i, j \in 1..Len(node.body) :
        /\ node.body[i].type = OtherType
        /\ Len(EntryPackages(node.body[i])) > 0
        /\ node.body[j].type = Registry
        /\ Len(EntryPackages(node.body[j])) = 2
        /\ EntryPackages(node.body[j])[1] = EntryPackages(node.body[j])[2]
    /\ Len(fetched) = 2
    /\ fetched[1] = fetched[2]

====
